---------------------------- MODULE Spec2Model ----------------------------
(***************************************************************************)
(* The context-resolution engine of the question-answering service         *)
(* (src/services/qa_service.py): ask_question and the helpers it calls.    *)
(* Texts are sequences of one-character strings, so that the substring     *)
(* tests, the splits and the regular expressions of the code are computed  *)
(* character by character.  The encoder, the index and the answer          *)
(* generator are collaborators whose replies are chosen nondeterministically.*)
(***************************************************************************)
EXTENDS Integers, Sequences, FiniteSets, TLC

(***************************************************************************)
(* Literals of the code.                                                   *)
(***************************************************************************)
COMMON_STRAIN_NAMES ==
  << <<"b","i","r","t","h","d","a","y"," ","c","a","k","e">>,
     <<"w","e","d","d","i","n","g"," ","c","a","k","e">>,
     <<"p","u","r","p","l","e"," ","h","a","z","e">>,
     <<"b","l","u","e"," ","d","r","e","a","m">>,
     <<"s","o","u","r"," ","d","i","e","s","e","l">>,
     <<"g","i","r","l"," ","s","c","o","u","t"," ","c","o","o","k","i","e","s">>,
     <<"n","o","r","t","h","e","r","n"," ","l","i","g","h","t","s">>,
     <<"o","g"," ","k","u","s","h">>,
     <<"p","i","n","e","a","p","p","l","e"," ","e","x","p","r","e","s","s">>,
     <<"w","h","i","t","e"," ","w","i","d","o","w">>,
     <<"a","k","-","4","7">>,
     <<"g","r","e","e","n"," ","c","r","a","c","k">>,
     <<"g","r","a","n","d","d","a","d","d","y"," ","p","u","r","p","l","e">>,
     <<"j","a","c","k"," ","h","e","r","e","r">>,
     <<"b","u","b","b","a"," ","k","u","s","h">>,
     <<"d","u","r","b","a","n"," ","p","o","i","s","o","n">>,
     <<"g","e","l","a","t","o">>,
     <<"g","o","r","i","l","l","a"," ","g","l","u","e">>,
     <<"s","u","p","e","r"," ","l","e","m","o","n"," ","h","a","z","e">> >>

follow_up_indicators ==
  << <<"i","t">>,
     <<"t","h","i","s"," ","s","t","r","a","i","n">>,
     <<"t","h","i","s"," ","p","r","o","d","u","c","t">>,
     <<"e","f","f","e","c","t","s">>,
     <<"t","a","s","t","e">>,
     <<"s","m","e","l","l">>,
     <<"t","h","c">>,
     <<"c","b","d">>,
     <<"p","o","t","e","n","c","y">> >>

PRODUCT_NAME_WORDS ==
  << <<"s","t","r","a","i","n">>,
     <<"k","u","s","h">>,
     <<"o","g">>,
     <<"h","a","z","e">>,
     <<"p","u","r","p","l","e">>,
     <<"b","l","u","e">>,
     <<"g","r","e","e","n">>,
     <<"c","a","k","e">>,
     <<"d","r","e","a","m">>,
     <<"c","o","o","k","i","e","s">>,
     <<"d","i","e","s","e","l">>,
     <<"w","i","d","o","w">>,
     <<"s","k","u","n","k">>,
     <<"c","h","e","e","s","e">>,
     <<"l","e","m","o","n">>,
     <<"h","e","r","e","r">>,
     <<"j","a","c","k">>,
     <<"n","o","r","t","h","e","r","n">>,
     <<"l","i","g","h","t">>,
     <<"p","u","r","p","l","e">>,
     <<"s","o","u","r">>,
     <<"s","w","e","e","t">>,
     <<"b","e","r","r","y">>,
     <<"f","r","u","i","t">> >>

\* ", also known as"
ALSO_KNOWN_AS ==
  <<","," ","a","l","s","o"," ","k","n","o","w","n"," ","a","s">>

\* " is a "
IS_A ==
  <<" ","i","s"," ","a"," ">>

\* " strain"
SP_STRAIN ==
  <<" ","s","t","r","a","i","n">>

\* "this cannabis product"
GENERIC_NAME ==
  <<"t","h","i","s"," ","c","a","n","n","a","b","i","s"," ","p","r","o","d","u","c","t">>

\* "about"
ABOUT ==
  <<"a","b","o","u","t">>

\* "the"
THE ==
  <<"t","h","e">>

\* "strain"
STRAIN ==
  <<"s","t","r","a","i","n">>

\* "what"
WHAT ==
  <<"w","h","a","t">>

\* "is"
IS ==
  <<"i","s">>

\* "'s"
APOS_S ==
  <<"'","s">>

(***************************************************************************)
(* Python str operations, on sequences of characters.                      *)
(***************************************************************************)
Min(S) == CHOOSE x \in S : \A y \in S : x <= y

Max(S) == CHOOSE x \in S : \A y \in S : x >= y

\* str.isspace for the characters that occur in the texts
IsSpace(c) == c \in {" ", "\t", "\n"}

UPPERCASE ==
  <<"A","B","C","D","E","F","G","H","I","J","K","L","M",
    "N","O","P","Q","R","S","T","U","V","W","X","Y","Z">>

LOWERCASE ==
  <<"a","b","c","d","e","f","g","h","i","j","k","l","m",
    "n","o","p","q","r","s","t","u","v","w","x","y","z">>

LowerChar(c) ==
  IF \E k \in DOMAIN UPPERCASE : UPPERCASE[k] = c
  THEN LOWERCASE[CHOOSE k \in DOMAIN UPPERCASE : UPPERCASE[k] = c]
  ELSE c

\* s.lower()
lower(s) == SubSeq([i \in 1..Len(s) |-> LowerChar(s[i])], 1, Len(s))

\* s[i:].startswith(p), i counted from 1
StartsWithAt(s, p, i) ==
  /\ i >= 1
  /\ i + Len(p) - 1 <= Len(s)
  /\ \A k \in 1..Len(p) : s[i + k - 1] = p[k]

\* s.startswith(p)
startswith(s, p) == StartsWithAt(s, p, 1)

Occurrences(s, p) == {i \in 1..(Len(s) - Len(p) + 1) : StartsWithAt(s, p, i)}

\* p in s
Contains(s, p) == Occurrences(s, p) # {}

\* s.split(sep)[0]
split0(s, sep) ==
  IF Contains(s, sep) THEN SubSeq(s, 1, Min(Occurrences(s, sep)) - 1) ELSE s

\* s.strip()
strip(s) ==
  LET solid == {i \in 1..Len(s) : ~IsSpace(s[i])}
  IN  IF solid = {} THEN <<>> ELSE SubSeq(s, Min(solid), Max(solid))

\* s.split(): the whitespace-separated words of s
split(s) ==
  LET starts == {i \in 1..Len(s) : ~IsSpace(s[i]) /\ (i = 1 \/ IsSpace(s[i - 1]))}
      start(k) == CHOOSE i \in starts : Cardinality({j \in starts : j < i}) = k - 1
      stop(i) == Min({j \in i..Len(s) : j = Len(s) \/ IsSpace(s[j + 1])})
  IN  SubSeq([k \in 1..Cardinality(starts) |-> SubSeq(s, start(k), stop(start(k)))],
             1, Cardinality(starts))

\* s[:n]
prefix(s, n) == SubSeq(s, 1, IF Len(s) < n THEN Len(s) ELSE n)

(***************************************************************************)
(* The regular expressions of extract_strain_name.  The patterns about and *)
(* what share the tail                                                     *)
(*     \s+(?:the\s+)?([a-z\s]+?)(?:\s+strain)?[.?]?$                       *)
(* which is matched from the position h that follows the head.             *)
(***************************************************************************)
\* "no match" of a pattern, and Python's None where a str is expected
NoneStr == <<"None">>

\* [a-z\s]
InGroupClass(c) == IsSpace(c) \/ \E k \in DOMAIN LOWERCASE : LOWERCASE[k] = c

\* $ : the end of the text, or just before a final newline
EndOK(t, j) == j = Len(t) + 1 \/ (j = Len(t) /\ t[j] = "\n")

\* [.?]?$
PunctOK(t, j) ==
  \/ EndOK(t, j)
  \/ j <= Len(t) /\ t[j] \in {".", "?"} /\ EndOK(t, j + 1)

\* \s+strain[.?]?$
StrainOK(t, e) ==
  \E k \in 1..(Len(t) - e + 1) :
     /\ \A m \in e..(e + k - 1) : IsSpace(t[m])
     /\ StartsWithAt(t, STRAIN, e + k)
     /\ PunctOK(t, e + k + Len(STRAIN))

\* (?:\s+strain)?[.?]?$
SuffixOK(t, e) == StrainOK(t, e) \/ PunctOK(t, e)

\* ([a-z\s]+?) from g: the lazy group ends at the first e where the rest
\* matches; 0 when there is none
GroupEnd(t, g) ==
  LET ends == {e \in (g + 1)..(Len(t) + 1) :
                 /\ \A m \in g..(e - 1) : InGroupClass(t[m])
                 /\ SuffixOK(t, e)}
  IN  IF ends = {} THEN 0 ELSE Min(ends)

\* the length of the run of whitespace that starts at p
WsRun(t, p) ==
  LET stops == {j \in p..Len(t) : ~IsSpace(t[j])}
  IN  IF p > Len(t) THEN 0
      ELSE IF stops = {} THEN Len(t) - p + 1 ELSE Min(stops) - p

\* The starts of the group in the order the backtracking matcher tries them:
\* the greedy \s+ takes its whole run first; "the\s+" is tried before it is
\* skipped, its own \s+ greedy as well.
GroupStarts(t, h) ==
  LET w == WsRun(t, h)
      p == h + w
      w2 == WsRun(t, p + Len(THE))
      withThe == IF w >= 1 /\ StartsWithAt(t, THE, p)
                 THEN [j \in 1..w2 |-> p + Len(THE) + w2 - j + 1]
                 ELSE <<>>
      plain == [j \in 1..w |-> h + w - j + 1]
  IN  withThe \o plain

\* group(1) of the tail matched from h, or NoneStr
TailGroup(t, h) ==
  LET c == GroupStarts(t, h)
      ok == {j \in 1..Len(c) : GroupEnd(t, c[j]) # 0}
  IN  IF ok = {} THEN NoneStr
      ELSE SubSeq(t, c[Min(ok)], GroupEnd(t, c[Min(ok)]) - 1)

\* about_pattern.search(t): group(1) of the leftmost match, or NoneStr
about_pattern(t) ==
  LET hits == {i \in Occurrences(t, ABOUT) : TailGroup(t, i + Len(ABOUT)) # NoneStr}
  IN  IF hits = {} THEN NoneStr ELSE TailGroup(t, Min(hits) + Len(ABOUT))

\* the position after what(?:\s+is|\s*'s) matched at i, or 0
WhatHead(t, i) ==
  LET w == WsRun(t, i + Len(WHAT))
      p == i + Len(WHAT) + w
  IN  IF w >= 1 /\ StartsWithAt(t, IS, p) THEN p + Len(IS)
      ELSE IF StartsWithAt(t, APOS_S, p) THEN p + Len(APOS_S)
      ELSE 0

\* what_pattern.search(t): group(1) of the leftmost match, or NoneStr
what_pattern(t) ==
  LET hits == {i \in Occurrences(t, WHAT) :
                 WhatHead(t, i) # 0 /\ TailGroup(t, WhatHead(t, i)) # NoneStr}
  IN  IF hits = {} THEN NoneStr ELSE TailGroup(t, WhatHead(t, Min(hits)))

\* quote_pattern.search(t), "([^"]+)": group(1) of the leftmost match
quote_pattern(t) ==
  LET closing(i) == {j \in (i + 2)..Len(t) : t[j] = "\""}
      hits == {i \in 1..Len(t) :
                 /\ t[i] = "\""
                 /\ i + 1 <= Len(t) /\ t[i + 1] # "\""
                 /\ closing(i) # {}}
  IN  IF hits = {} THEN NoneStr
      ELSE SubSeq(t, Min(hits) + 1, Min(closing(Min(hits))) - 1)

(***************************************************************************)
(* The questions a caller sends.                                           *)
(***************************************************************************)
\* "What is OG Kush?"
Q_WhatIsOGKush ==
  <<"W","h","a","t"," ","i","s"," ","O","G"," ","K","u","s","h","?">>

\* "How's the taste?"
Q_Taste ==
  <<"H","o","w","'","s"," ","t","h","e"," ","t","a","s","t","e","?">>

\* "Tell me about the Blue Dream strain"
Q_AboutBlueDream ==
  <<"T","e","l","l"," ","m","e"," ","a","b","o","u","t"," ","t","h","e"," ","B","l","u","e"," ","D","r","e","a","m"," ","s","t","r","a","i","n">>

\* "OG Kush or Blue Dream?"
Q_TwoNames ==
  <<"O","G"," ","K","u","s","h"," ","o","r"," ","B","l","u","e"," ","D","r","e","a","m","?">>

\* "What's the purple one?"
Q_PurpleOne ==
  <<"W","h","a","t","'","s"," ","t","h","e"," ","p","u","r","p","l","e"," ","o","n","e","?">>

\* "What about the OG Kush cross?"
Q_AboutCross ==
  <<"W","h","a","t"," ","a","b","o","u","t"," ","t","h","e"," ","O","G"," ","K","u","s","h"," ","c","r","o","s","s","?">>

\* "Tell me more"
Q_TellMore ==
  <<"T","e","l","l"," ","m","e"," ","m","o","r","e">>

\* "Any White Widow?"
Q_WhiteWidow ==
  <<"A","n","y"," ","W","h","i","t","e"," ","W","i","d","o","w","?">>

\* "Got \"Kandy Kush\"?"
Q_QuotedKandy ==
  <<"G","o","t"," ","\"","K","a","n","d","y"," ","K","u","s","h","\"","?">>

\* "Is it sweet?"
Q_IsItSweet ==
  <<"I","s"," ","i","t"," ","s","w","e","e","t","?">>

\* "Got any sour candy?"
Q_SourCandy ==
  <<"G","o","t"," ","a","n","y"," ","s","o","u","r"," ","c","a","n","d","y","?">>

\* "What is Kush OG?"
Q_WhatIsKushOG ==
  <<"W","h","a","t"," ","i","s"," ","K","u","s","h"," ","O","G","?">>

(***************************************************************************)
(* The product descriptions held by the index service.                     *)
(***************************************************************************)
\* "Blue Dream is a sativa hybrid. THC: 18%"
D_BlueDream ==
  <<"B","l","u","e"," ","D","r","e","a","m"," ","i","s"," ","a"," ","s","a","t","i","v","a"," ","h","y","b","r","i","d","."," ","T","H","C",":"," ","1","8","%">>

\* "Kandy Kush, also known as Candy Kush, crosses OG Kush strain and Trainwreck."
D_KandyKush ==
  <<"K","a","n","d","y"," ","K","u","s","h",","," ","a","l","s","o"," ","k","n","o","w","n"," ","a","s"," ","C","a","n","d","y"," ","K","u","s","h",","," ","c","r","o","s","s","e","s"," ","O","G"," ","K","u","s","h"," ","s","t","r","a","i","n"," ","a","n","d"," ","T","r","a","i","n","w","r","e","c","k",".">>

\* "OG Kush is a hybrid."
D_OGKush ==
  <<"O","G"," ","K","u","s","h"," ","i","s"," ","a"," ","h","y","b","r","i","d",".">>

\* "Purple OG mix with Kush"
D_PurpleOG ==
  <<"P","u","r","p","l","e"," ","O","G"," ","m","i","x"," ","w","i","t","h"," ","K","u","s","h">>

\* "Northern Lights is a pure indica with a sweet and spicy aroma, resinous buds and a fast flowering time. Often grown beside White Widow."
D_NorthernLights ==
  <<"N","o","r","t","h","e","r","n"," ","L","i","g","h","t","s"," ","i","s"," ","a"," ","p","u","r","e"," ","i","n","d","i","c","a"," ","w","i","t","h"," ","a"," ","s","w","e","e","t"," ","a","n","d"," ","s","p","i","c","y"," ","a","r","o","m","a",","," ","r","e","s","i","n","o","u","s"," ","b","u","d","s"," ","a","n","d"," ","a"," ","f","a","s","t"," ","f","l","o","w","e","r","i","n","g"," ","t","i","m","e","."," ","O","f","t","e","n"," ","g","r","o","w","n"," ","b","e","s","i","d","e"," ","W","h","i","t","e"," ","W","i","d","o","w",".">>

(***************************************************************************)
(* Products and the index service's data.  A product context is the number *)
(* of a product; None is the absent context.                               *)
(***************************************************************************)
None == 0

PRODUCTS == <<D_BlueDream, D_KandyKush, D_OGKush, D_PurpleOG, D_NorthernLights>>

Products == DOMAIN PRODUCTS

\* product["description"]
Description(product) == PRODUCTS[product]

\* The orders in which index_service.products_data may hold the products.
ProductOrders == {<<1, 2, 3, 4, 5>>, <<3, 5, 2, 4, 1>>, <<5, 4, 3, 2, 1>>}

Questions ==
  {Q_WhatIsOGKush, Q_Taste, Q_AboutBlueDream, Q_TwoNames, Q_PurpleOne,
   Q_AboutCross, Q_TellMore, Q_WhiteWidow, Q_QuotedKandy, Q_IsItSweet,
   Q_SourCandy, Q_WhatIsKushOG}

(***************************************************************************)
(* The pure helpers of qa_service.                                         *)
(***************************************************************************)
\* contains_potential_product_reference: PRODUCT_NAME_PATTERN.search(text),
\* an alternation of words matched with re.IGNORECASE
contains_potential_product_reference(text) ==
  \E k \in DOMAIN PRODUCT_NAME_WORDS : Contains(lower(text), PRODUCT_NAME_WORDS[k])

\* The body of get_product_name, from the description of the product.
NameOf(description) ==
  LET first_sentence == split0(description, <<".">>)
      words == split(first_sentence)
  IN  IF Contains(first_sentence, ALSO_KNOWN_AS)
        THEN strip(split0(first_sentence, ALSO_KNOWN_AS))
      ELSE IF Contains(first_sentence, IS_A)
        THEN strip(split0(first_sentence, IS_A))
      ELSE IF Contains(lower(first_sentence), SP_STRAIN)
        THEN strip(split0(first_sentence, SP_STRAIN))
      ELSE IF Len(words) > 1 THEN words[1] \o <<" ">> \o words[2]  \* ' '.join(words[:2])
      ELSE IF Len(words) = 1 THEN words[1]
      ELSE GENERIC_NAME  \* words[0] raises IndexError, caught by the bare except

\* get_product_name: None for an absent context
get_product_name(product_context) ==
  IF product_context = None THEN NoneStr ELSE NameOf(Description(product_context))

\* The curated names the lowercased text contains, as places of the list.
KnownIn(t) == {k \in DOMAIN COMMON_STRAIN_NAMES : Contains(t, COMMON_STRAIN_NAMES[k])}

\* A faulty extract_strain_name: the "about" rule is tried before the list.
extract_strain_name_about_first(text) ==
  LET t == lower(text)
  IN  IF about_pattern(t) # NoneStr THEN strip(about_pattern(t))
      ELSE IF KnownIn(t) # {} THEN COMMON_STRAIN_NAMES[Min(KnownIn(t))]
      ELSE IF what_pattern(t) # NoneStr THEN strip(what_pattern(t))
      ELSE IF quote_pattern(t) # NoneStr THEN strip(quote_pattern(t))
      ELSE NoneStr

\* extract_strain_name: the first rule that matches decides
extract_strain_name(text) ==
  LET t == lower(text)
  IN  IF KnownIn(t) # {} THEN COMMON_STRAIN_NAMES[Min(KnownIn(t))]
      ELSE IF about_pattern(t) # NoneStr THEN strip(about_pattern(t))
      ELSE IF what_pattern(t) # NoneStr THEN strip(what_pattern(t))
      ELSE IF quote_pattern(t) # NoneStr THEN strip(quote_pattern(t))
      ELSE NoneStr

\* Python truth of a str-or-None value
Truthy(s) == s # NoneStr /\ s # <<>>

\* A function as a table: every value is computed once, when the table is built.
Tabulated(f) == f @@ <<>>

\* extract_strain_name and contains_potential_product_reference, tabulated
\* over the questions of the model.
ExtractTable == Tabulated([q \in Questions |-> extract_strain_name(q)])

ReferenceTable ==
  Tabulated([q \in Questions |-> contains_potential_product_reference(q)])

(***************************************************************************)
(* Thresholds, in hundredths.                                              *)
(***************************************************************************)
\* CONTEXT_SIMILARITY_THRESHOLD = 0.75
CONTEXT_SIMILARITY_THRESHOLD == 75

\* distances[0][0] < 0.5 in get_product_context_from_query
QUERY_DISTANCE_THRESHOLD == 50

\* distances[0][0] < 0.4 in get_product_by_strain_name
NAME_DISTANCE_THRESHOLD == 40

\* desc[:100] in get_product_by_strain_name
DESC_WINDOW == 100

(***************************************************************************)
(* The collaborators.  The encoder and the index answer a retrieval with   *)
(* one of SearchReplies, and the similarity computation of                 *)
(* detect_topic_change with one of DistanceReplies; distances are in       *)
(* hundredths.                                                             *)
(***************************************************************************)
Distances == {10, 30, 45, 60}

\* what: "encode_raises", "search_raises", "empty" (no label), or "hit" with
\* the nearest label and its distance; get_ok: get_product_by_index returns
SearchReplies ==
  {[what |-> w, label |-> 1, distance |-> 10, get_ok |-> TRUE] :
      w \in {"encode_raises", "search_raises", "empty"}}
  \cup [what : {"hit"}, label : Products, distance : Distances, get_ok : BOOLEAN]

\* raises at encode_query or at get_distance, or the distance
\* index.space.get_distance returns
DistanceReplies ==
  {[raises |-> TRUE, at |-> a, distance |-> 10] : a \in {"encode_query", "get_distance"}}
  \cup [raises : {FALSE}, at : {"none"}, distance : Distances]

\* The calls a retrieval makes on the collaborators before reply r ends it.
SearchCalls(r, threshold) ==
  IF r.what = "encode_raises" THEN {"encode_query"}
  ELSE IF r.what = "hit" /\ r.distance < threshold
    THEN {"encode_query", "search_index", "get_product_by_index"}
  ELSE {"encode_query", "search_index"}

\* The call of a retrieval that raises when the collaborators answer r.
SearchRaised(r, threshold) ==
  IF r.what = "encode_raises" THEN "encode_query"
  ELSE IF r.what = "search_raises" THEN "search_index"
  ELSE IF r.what = "hit" /\ r.distance < threshold /\ ~r.get_ok
    THEN "get_product_by_index"
  ELSE "none"

\* The calls of a retrieval that return when the collaborators answer r.
SearchSucceeded(r, threshold) ==
  SearchCalls(r, threshold) \ {SearchRaised(r, threshold)}

\* A faulty get_product_context_from_query: it reports a product as found
\* although get_product_by_index gave none.
get_product_context_from_query_unchecked(query, r) ==
  IF r.what = "hit" /\ r.distance < QUERY_DISTANCE_THRESHOLD
  THEN [product |-> IF r.get_ok THEN r.label ELSE None, found |-> TRUE,
        calls |-> {"get_product_context_from_query"}
                    \cup SearchCalls(r, QUERY_DISTANCE_THRESHOLD)]
  ELSE [product |-> None, found |-> FALSE,
        calls |-> {"get_product_context_from_query"}
                    \cup SearchCalls(r, QUERY_DISTANCE_THRESHOLD)]

\* get_product_context_from_query(query) when the collaborators answer r
get_product_context_from_query(query, r) ==
  IF r.what = "hit" /\ r.distance < QUERY_DISTANCE_THRESHOLD /\ r.get_ok
  THEN [product |-> r.label, found |-> TRUE,
        calls |-> {"get_product_context_from_query"}
                    \cup SearchCalls(r, QUERY_DISTANCE_THRESHOLD)]
  ELSE [product |-> None, found |-> FALSE,
        calls |-> {"get_product_context_from_query"}
                    \cup SearchCalls(r, QUERY_DISTANCE_THRESHOLD)]

\* desc = product.get("description", "").lower(), tabulated over the products
LowerDescription == Tabulated([p \in Products |-> lower(Description(p))])

\* Stage (a): the description starts with the name, or holds "<name> strain".
ExactMatch(normalized_name, product) ==
  LET desc == LowerDescription[product]
  IN  \/ startswith(desc, normalized_name)
      \/ Contains(desc, normalized_name \o SP_STRAIN)

\* Stage (b): every word of the name occurs in the first 100 characters.
WordMatch(normalized_name, product) ==
  LET desc == LowerDescription[product]
      head == prefix(desc, DESC_WINDOW)
      words == split(normalized_name)
  IN  \A k \in DOMAIN words : Contains(head, words[k])

\* The first product of the scan order among the matching ones, or None.
FirstMatch(all_products, matching) ==
  LET at == {k \in DOMAIN all_products : all_products[k] \in matching}
  IN  IF at = {} THEN None ELSE all_products[Min(at)]

\* A faulty get_product_by_strain_name: its first stage only looks at the
\* start of the descriptions.
get_product_by_strain_name_prefix_only(strain_name, all_products, r) ==
  LET normalized_name == strip(lower(strain_name))
      exact == FirstMatch(all_products,
                 {p \in Products : startswith(lower(Description(p)), normalized_name)})
      partial == FirstMatch(all_products,
                   {p \in Products : WordMatch(normalized_name, p)})
      scan == {"get_product_by_strain_name", "products_data"}
  IN  IF exact # None THEN [product |-> exact, found |-> TRUE, calls |-> scan]
      ELSE IF partial # None THEN [product |-> partial, found |-> TRUE, calls |-> scan]
      ELSE IF r.what = "hit" /\ r.distance < NAME_DISTANCE_THRESHOLD /\ r.get_ok
        THEN [product |-> r.label, found |-> TRUE,
              calls |-> scan \cup SearchCalls(r, NAME_DISTANCE_THRESHOLD)]
      ELSE [product |-> None, found |-> FALSE,
            calls |-> scan \cup SearchCalls(r, NAME_DISTANCE_THRESHOLD)]

\* A faulty get_product_by_strain_name: one scan that takes the first
\* candidate matching stage (a) or stage (b).
get_product_by_strain_name_single_scan(strain_name, all_products, r) ==
  LET normalized_name == strip(lower(strain_name))
      either == FirstMatch(all_products,
                  {p \in Products : \/ ExactMatch(normalized_name, p)
                                    \/ WordMatch(normalized_name, p)})
      scan == {"get_product_by_strain_name", "products_data"}
  IN  IF either # None THEN [product |-> either, found |-> TRUE, calls |-> scan]
      ELSE IF r.what = "hit" /\ r.distance < NAME_DISTANCE_THRESHOLD /\ r.get_ok
        THEN [product |-> r.label, found |-> TRUE,
              calls |-> scan \cup SearchCalls(r, NAME_DISTANCE_THRESHOLD)]
      ELSE [product |-> None, found |-> FALSE,
            calls |-> scan \cup SearchCalls(r, NAME_DISTANCE_THRESHOLD)]

\* get_product_by_strain_name(strain_name) over the scan order all_products,
\* when the collaborators answer the embedding fallback with r
get_product_by_strain_name(strain_name, all_products, r) ==
  LET normalized_name == strip(lower(strain_name))
      exact == FirstMatch(all_products,
                 {p \in Products : ExactMatch(normalized_name, p)})
      partial == FirstMatch(all_products,
                   {p \in Products : WordMatch(normalized_name, p)})
      scan == {"get_product_by_strain_name", "products_data"}
  IN  IF exact # None THEN [product |-> exact, found |-> TRUE, calls |-> scan]
      ELSE IF partial # None THEN [product |-> partial, found |-> TRUE, calls |-> scan]
      ELSE IF r.what = "hit" /\ r.distance < NAME_DISTANCE_THRESHOLD /\ r.get_ok
        THEN [product |-> r.label, found |-> TRUE,
              calls |-> scan \cup SearchCalls(r, NAME_DISTANCE_THRESHOLD)]
      ELSE [product |-> None, found |-> FALSE,
            calls |-> scan \cup SearchCalls(r, NAME_DISTANCE_THRESHOLD)]

\* The follow-up indicators the question contains.
IndicatorsIn(text) ==
  {k \in DOMAIN follow_up_indicators :
      Contains(lower(text), lower(follow_up_indicators[k]))}

\* A faulty detect_topic_change: the follow-up indicators are not looked at.
detect_topic_change_no_indicators(text, current_product_context, d) ==
  LET product_name == get_product_name(current_product_context)
      similarity_score == 100 - d.distance
      embedded == {"detect_topic_change", "encode_query", "get_distance"}
  IN  IF current_product_context = None
        THEN [value |-> TRUE, calls |-> {"detect_topic_change"}]
      ELSE IF Truthy(product_name) /\ Contains(lower(text), lower(product_name))
        THEN [value |-> FALSE, calls |-> {"detect_topic_change"}]
      ELSE IF d.raises
        THEN [value |-> FALSE, calls |-> embedded]
      ELSE [value |-> /\ similarity_score < CONTEXT_SIMILARITY_THRESHOLD
                      /\ contains_potential_product_reference(text),
            calls |-> embedded]

\* A faulty detect_topic_change: the follow-up indicators are looked at only
\* after the similarity has been computed.
detect_topic_change_indicators_last(text, current_product_context, d) ==
  LET product_name == get_product_name(current_product_context)
      similarity_score == 100 - d.distance
      embedded == {"detect_topic_change", "encode_query", "get_distance"}
  IN  IF current_product_context = None
        THEN [value |-> TRUE, calls |-> {"detect_topic_change"}]
      ELSE IF Truthy(product_name) /\ Contains(lower(text), lower(product_name))
        THEN [value |-> FALSE, calls |-> {"detect_topic_change"}]
      ELSE IF d.raises
        THEN [value |-> FALSE, calls |-> embedded]
      ELSE [value |-> /\ similarity_score < CONTEXT_SIMILARITY_THRESHOLD
                      /\ contains_potential_product_reference(text)
                      /\ IndicatorsIn(text) = {},
            calls |-> embedded]

\* A faulty detect_topic_change: an error of the similarity computation
\* counts as a topic change.
detect_topic_change_error_is_change(text, current_product_context, d) ==
  LET product_name == get_product_name(current_product_context)
      similarity_score == 100 - d.distance
      embedded == {"detect_topic_change", "encode_query", "get_distance"}
  IN  IF current_product_context = None
        THEN [value |-> TRUE, calls |-> {"detect_topic_change"}]
      ELSE IF IndicatorsIn(text) # {}
        THEN [value |-> FALSE, calls |-> {"detect_topic_change"}]
      ELSE IF Truthy(product_name) /\ Contains(lower(text), lower(product_name))
        THEN [value |-> FALSE, calls |-> {"detect_topic_change"}]
      ELSE IF d.raises
        THEN [value |-> TRUE, calls |-> embedded]
      ELSE [value |-> /\ similarity_score < CONTEXT_SIMILARITY_THRESHOLD
                      /\ contains_potential_product_reference(text),
            calls |-> embedded]

\* detect_topic_change(question, current_product_context), text being the
\* question, when the similarity computation answers d
detect_topic_change(text, current_product_context, d) ==
  LET product_name == get_product_name(current_product_context)
      similarity_score == 100 - d.distance
      embedded == {"detect_topic_change", "encode_query", "get_distance"}
  IN  IF current_product_context = None
        THEN [value |-> TRUE, calls |-> {"detect_topic_change"}]
      ELSE IF IndicatorsIn(text) # {}
        THEN [value |-> FALSE, calls |-> {"detect_topic_change"}]
      ELSE IF Truthy(product_name) /\ Contains(lower(text), lower(product_name))
        THEN [value |-> FALSE, calls |-> {"detect_topic_change"}]
      ELSE IF d.raises
        THEN [value |-> FALSE, calls |-> embedded]
      ELSE [value |-> /\ similarity_score < CONTEXT_SIMILARITY_THRESHOLD
                      /\ contains_potential_product_reference(text),
            calls |-> embedded]

\* A faulty NeedsDirectLookup: the names are compared as written.
NeedsDirectLookupCaseSensitive(name, context) ==
  /\ Truthy(name)
  /\ context = None \/ get_product_name(context) # name

\* The case of the special handling of an explicitly named strain.
NeedsDirectLookup(name, context) ==
  /\ Truthy(name)
  /\ context = None \/ lower(get_product_name(context)) # lower(name)

\* The name the prompt talks about.
PromptName(context, q) ==
  IF context # None THEN get_product_name(context)
  ELSE IF Truthy(extract_strain_name(q)) THEN extract_strain_name(q)
  ELSE <<"this product">>

\* The functions of the turn, tabulated over the questions, products, scan
\* orders and collaborator replies of the model.
DetectTable ==
  Tabulated([q \in Questions |-> Tabulated([p \in Products |->
     Tabulated([d \in DistanceReplies |-> detect_topic_change(q, p, d)])])])

LookupTable ==
  Tabulated([o \in ProductOrders |-> Tabulated([q \in Questions |->
     Tabulated([r \in SearchReplies |->
        get_product_by_strain_name(ExtractTable[q], o, r)])])])

NeedsLookupTable ==
  Tabulated([q \in Questions |-> Tabulated([c \in Products \cup {None} |->
     NeedsDirectLookup(ExtractTable[q], c)])])

PromptNameTable ==
  Tabulated([q \in Questions |-> Tabulated([c \in Products \cup {None} |->
     PromptName(c, q)])])

(***************************************************************************)
(* Sessions.                                                               *)
(***************************************************************************)
\* The longest conversation_history of a session of the model.
MaxHistory == 1

\* One past exchange of a conversation.
Exchanges == {[question |-> Q_Taste, answer |-> "Sweet and earthy."]}

Histories == UNION {[1..n -> Exchanges] : n \in 0..MaxHistory}

\* session_data: None (present = FALSE), or the caller's dictionary
NoSession == [present |-> FALSE, product_context |-> None, conversation_history |-> <<>>]

Sessions ==
  {NoSession}
  \cup [present : {TRUE}, product_context : Products \cup {None},
        conversation_history : Histories]

HasContext(s) == s.present /\ s.product_context # None

\* The answers the generator gives, and the answer of the except branch.
Answers == {"Sweet and earthy.", "No information."}

APOLOGY == "Sorry, couldn't process your question. Try again."

NoResult == [answer |-> "", context_used |-> None, new_product_detected |-> FALSE]

NoPrompt ==
  [context |-> <<>>, conversation_context |-> <<>>, question |-> <<>>,
   product_name |-> <<>>]

(***************************************************************************)
(* The state: the index's data, the arguments and locals of the running    *)
(* ask_question, the calls it has made, and what it returned.              *)
(***************************************************************************)
VARIABLES products_data, session, question, pc, context_used,
          new_product_detected, is_new_topic, detected_strain_name,
          direct_context, direct_found, prompt, response, calls, returned,
          raised, succeeded

vars == <<products_data, session, question, pc, context_used,
          new_product_detected, is_new_topic, detected_strain_name,
          direct_context, direct_found, prompt, response, calls, returned,
          raised, succeeded>>

\* raised is the call on the encoder or the index that raised in the latest
\* step of the turn ("none" when none did), succeeded the calls on them
\* that have returned in the turn.

\* The locals that are set before the generator is called.
resolved == <<context_used, new_product_detected, is_new_topic,
              detected_strain_name, direct_context, direct_found, prompt>>

Init ==
  /\ products_data \in ProductOrders
  /\ session = NoSession
  /\ question = <<>>
  /\ pc = "idle"
  /\ context_used = None
  /\ new_product_detected = FALSE
  /\ is_new_topic = FALSE
  /\ detected_strain_name = NoneStr
  /\ direct_context = None
  /\ direct_found = FALSE
  /\ prompt = NoPrompt
  /\ response = "none"
  /\ calls = {}
  /\ returned = NoResult
  /\ raised = "none"
  /\ succeeded = {}

\* A faulty except branch: it hands back what had been resolved.
ReturnApologyKeepsContext ==
  /\ returned' = [answer |-> APOLOGY, context_used |-> context_used,
                  new_product_detected |-> new_product_detected]
  /\ pc' = "done"

\* The except branch of ask_question: the apology outcome.
ReturnApology ==
  /\ returned' = [answer |-> APOLOGY, context_used |-> None,
                  new_product_detected |-> FALSE]
  /\ pc' = "done"

\* ask_question is called: the monitor starts and the locals are set.
StartTurn(q, s) ==
  /\ pc = "idle"
  /\ question' = q
  /\ session' = s
  /\ new_product_detected' = FALSE
  /\ context_used' = None
  /\ is_new_topic' = FALSE
  /\ detected_strain_name' = NoneStr
  /\ direct_context' = None
  /\ direct_found' = FALSE
  /\ prompt' = NoPrompt
  /\ response' = "none"
  /\ calls' = {"start_monitoring"}
  /\ returned' = NoResult
  /\ raised' = "none"
  /\ succeeded' = {}
  /\ pc' = "resolve"
  /\ UNCHANGED products_data

\* ask_question is called and OllamaMonitor().start_monitoring() raises.
StartTurnRaises(q, s) ==
  /\ pc = "idle"
  /\ question' = q
  /\ session' = s
  /\ new_product_detected' = FALSE
  /\ context_used' = None
  /\ is_new_topic' = FALSE
  /\ detected_strain_name' = NoneStr
  /\ direct_context' = None
  /\ direct_found' = FALSE
  /\ prompt' = NoPrompt
  /\ response' = "none"
  /\ calls' = {"start_monitoring"}
  /\ raised' = "none"
  /\ succeeded' = {}
  /\ ReturnApology
  /\ UNCHANGED products_data

\* No session, or a session without product context: search by the query.
ResolveNoContext(r) ==
  /\ pc = "resolve"
  /\ ~HasContext(session)
  /\ LET got == get_product_context_from_query(question, r)
     IN  /\ context_used' = got.product
         /\ new_product_detected' = got.found
         /\ calls' = calls \cup got.calls
  /\ raised' = SearchRaised(r, QUERY_DISTANCE_THRESHOLD)
  /\ succeeded' = succeeded \cup SearchSucceeded(r, QUERY_DISTANCE_THRESHOLD)
  /\ pc' = "strain"
  /\ UNCHANGED <<products_data, session, question, is_new_topic,
                 detected_strain_name, direct_context, direct_found, prompt,
                 response, returned>>

\* A session with a product context: is the question about a new product?
DetectTopic(d) ==
  /\ pc = "resolve"
  /\ HasContext(session)
  /\ \E got \in {DetectTable[question][session.product_context][d]} :
     LET embedded == "encode_query" \in got.calls
     IN  /\ is_new_topic' = got.value
         /\ calls' = calls \cup got.calls
         /\ raised' = IF embedded /\ d.raises THEN d.at ELSE "none"
         /\ succeeded' = succeeded \cup
                           (IF ~embedded THEN {}
                            ELSE IF ~d.raises THEN {"encode_query", "get_distance"}
                            ELSE IF d.at = "get_distance" THEN {"encode_query"}
                            ELSE {})
  /\ pc' = "detected"
  /\ UNCHANGED <<products_data, session, question, context_used,
                 new_product_detected, detected_strain_name, direct_context,
                 direct_found, prompt, response, returned>>

\* A faulty RetrieveOrKeep: after a search the session's context is dropped,
\* whether a product was found or not.
RetrieveOrDrop(r) ==
  /\ pc = "detected"
  /\ LET search == is_new_topic /\ ReferenceTable[question]
         got == get_product_context_from_query(question, r)
         found == search /\ got.found
     IN  /\ new_product_detected' = found
         /\ context_used' = IF search THEN got.product ELSE session.product_context
         /\ calls' = IF search THEN calls \cup got.calls ELSE calls
         /\ raised' = IF search THEN SearchRaised(r, QUERY_DISTANCE_THRESHOLD)
                       ELSE "none"
         /\ succeeded' = IF search
                          THEN succeeded \cup SearchSucceeded(r, QUERY_DISTANCE_THRESHOLD)
                          ELSE succeeded
  /\ pc' = "strain"
  /\ UNCHANGED <<products_data, session, question, is_new_topic,
                 detected_strain_name, direct_context, direct_found, prompt,
                 response, returned>>

\* Search again on a topic change with a product reference; keep the
\* session's context when no new product was found.
RetrieveOrKeep(r) ==
  /\ pc = "detected"
  /\ LET search == is_new_topic /\ ReferenceTable[question]
         got == get_product_context_from_query(question, r)
         found == search /\ got.found
     IN  /\ new_product_detected' = found
         /\ context_used' = IF found THEN got.product ELSE session.product_context
         /\ calls' = IF search THEN calls \cup got.calls ELSE calls
         /\ raised' = IF search THEN SearchRaised(r, QUERY_DISTANCE_THRESHOLD)
                       ELSE "none"
         /\ succeeded' = IF search
                          THEN succeeded \cup SearchSucceeded(r, QUERY_DISTANCE_THRESHOLD)
                          ELSE succeeded
  /\ pc' = "strain"
  /\ UNCHANGED <<products_data, session, question, is_new_topic,
                 detected_strain_name, direct_context, direct_found, prompt,
                 response, returned>>

\* A faulty StrainLookup: a product found by the query retrieval is kept.
StrainLookupKeepsRetrieved(r) ==
  /\ pc = "strain"
  /\ detected_strain_name' = ExtractTable[question]
  /\ \E got \in {LookupTable[products_data][question][r]} :
         IF NeedsLookupTable[question][context_used]
         THEN /\ direct_context' = got.product
              /\ direct_found' = got.found
              /\ context_used' = IF got.found /\ ~new_product_detected
                                 THEN got.product ELSE context_used
              /\ new_product_detected' = (got.found \/ new_product_detected)
              /\ calls' = calls \cup got.calls
              /\ raised' = IF "encode_query" \in got.calls
                            THEN SearchRaised(r, NAME_DISTANCE_THRESHOLD)
                            ELSE "none"
              /\ succeeded' = IF "encode_query" \in got.calls
                               THEN succeeded \cup SearchSucceeded(r, NAME_DISTANCE_THRESHOLD)
                               ELSE succeeded
         ELSE /\ raised' = "none"
              /\ UNCHANGED <<direct_context, direct_found, context_used,
                             new_product_detected, calls, succeeded>>
  /\ pc' = "compose"
  /\ UNCHANGED <<products_data, session, question, is_new_topic, prompt,
                 response, returned>>

\* A strain named in the question is looked up directly when it is not
\* the name of the context chosen so far.
StrainLookup(r) ==
  /\ pc = "strain"
  /\ detected_strain_name' = ExtractTable[question]
  /\ \E got \in {LookupTable[products_data][question][r]} :
         IF NeedsLookupTable[question][context_used]
         THEN /\ direct_context' = got.product
              /\ direct_found' = got.found
              /\ context_used' = IF got.found THEN got.product ELSE context_used
              /\ new_product_detected' = (got.found \/ new_product_detected)
              /\ calls' = calls \cup got.calls
              /\ raised' = IF "encode_query" \in got.calls
                            THEN SearchRaised(r, NAME_DISTANCE_THRESHOLD)
                            ELSE "none"
              /\ succeeded' = IF "encode_query" \in got.calls
                               THEN succeeded \cup SearchSucceeded(r, NAME_DISTANCE_THRESHOLD)
                               ELSE succeeded
         ELSE /\ raised' = "none"
              /\ UNCHANGED <<direct_context, direct_found, context_used,
                             new_product_detected, calls, succeeded>>
  /\ pc' = "compose"
  /\ UNCHANGED <<products_data, session, question, is_new_topic, prompt,
                 response, returned>>

\* The grounding text, the transcript and the prompt are built.
ComposePrompt ==
  /\ pc = "compose"
  /\ \E product_name \in {PromptNameTable[question][context_used]} :
       prompt' =
         [context |-> IF context_used = None
                      THEN <<"couldn't find specific information about">>
                             \o product_name
                      ELSE Description(context_used),
          conversation_context |-> IF session.present
                                   THEN session.conversation_history ELSE <<>>,
          question |-> question,
          product_name |-> product_name]
  /\ calls' = calls \cup {"update_peak_memory"}
  /\ raised' = "none"
  /\ pc' = "generate"
  /\ UNCHANGED succeeded
  /\ UNCHANGED <<products_data, session, question, context_used,
                 new_product_detected, is_new_topic, detected_strain_name,
                 direct_context, direct_found, response, returned>>

\* A faulty success path: it stores the context it used in the session.
GenerateOkStoresContext(answer) ==
  /\ pc = "generate"
  /\ response' = "ok"
  /\ calls' = calls \cup {"generate", "stop_monitoring"}
  /\ returned' = [answer |-> answer, context_used |-> context_used,
                  new_product_detected |-> new_product_detected]
  /\ session' = IF session.present
                THEN [session EXCEPT !.product_context = context_used]
                ELSE session
  /\ pc' = "done"
  /\ UNCHANGED <<products_data, question, resolved, raised, succeeded>>

\* The generator answers with status 200.
GenerateOk(answer) ==
  /\ pc = "generate"
  /\ response' = "ok"
  /\ calls' = calls \cup {"generate", "stop_monitoring"}
  /\ returned' = [answer |-> answer, context_used |-> context_used,
                  new_product_detected |-> new_product_detected]
  /\ pc' = "done"
  /\ UNCHANGED <<products_data, session, question, resolved, raised, succeeded>>

\* requests.post raises ("raises"), the status is not 200 ("status"), or
\* the body of a 200 response holds no "response" ("body").
GenerateFails(how) ==
  /\ pc = "generate"
  /\ response' = how
  /\ calls' = calls \cup (IF how = "status" THEN {"generate", "stop_monitoring"}
                          ELSE {"generate"})
  /\ ReturnApology
  /\ UNCHANGED <<products_data, session, question, resolved, raised, succeeded>>

\* The call has returned: its frame is gone, the caller keeps the session.
EndTurn ==
  /\ pc = "done"
  /\ pc' = "idle"
  /\ question' = <<>>
  /\ context_used' = None
  /\ new_product_detected' = FALSE
  /\ is_new_topic' = FALSE
  /\ detected_strain_name' = NoneStr
  /\ direct_context' = None
  /\ direct_found' = FALSE
  /\ prompt' = NoPrompt
  /\ response' = "none"
  /\ calls' = {}
  /\ returned' = NoResult
  /\ raised' = "none"
  /\ succeeded' = {}
  /\ UNCHANGED <<products_data, session>>

Next ==
  \/ \E q \in Questions, s \in Sessions : StartTurn(q, s)
  \/ \E q \in Questions, s \in Sessions : StartTurnRaises(q, s)
  \/ \E r \in SearchReplies : ResolveNoContext(r)
  \/ \E d \in DistanceReplies : DetectTopic(d)
  \/ \E r \in SearchReplies : RetrieveOrKeep(r)
  \/ \E r \in SearchReplies : StrainLookup(r)
  \/ ComposePrompt
  \/ \E a \in Answers : GenerateOk(a)
  \/ \E how \in {"raises", "status", "body"} : GenerateFails(how)
  \/ EndTurn

Spec == Init /\ [][Next]_vars

(***************************************************************************)
(* A conversation: the caller hands every turn the session it keeps, and   *)
(* after the turn stores the returned context_used as the session's        *)
(* product_context.                                                        *)
(***************************************************************************)
\* The next turn of the conversation is given the session the caller keeps.
StartStoredTurn(q) == StartTurn(q, session)

StartStoredTurnRaises(q) == StartTurnRaises(q, session)

\* The caller stores the outcome: the returned context_used becomes the
\* session's product_context, with the history h it keeps; the call's frame
\* is gone.
StoreOutcome(h) ==
  /\ pc = "done"
  /\ session' = [present |-> TRUE, product_context |-> returned.context_used,
                 conversation_history |-> h]
  /\ pc' = "idle"
  /\ question' = <<>>
  /\ context_used' = None
  /\ new_product_detected' = FALSE
  /\ is_new_topic' = FALSE
  /\ detected_strain_name' = NoneStr
  /\ direct_context' = None
  /\ direct_found' = FALSE
  /\ prompt' = NoPrompt
  /\ response' = "none"
  /\ calls' = {}
  /\ returned' = NoResult
  /\ raised' = "none"
  /\ succeeded' = {}
  /\ UNCHANGED products_data

NextStored ==
  \/ \E q \in Questions : StartStoredTurn(q)
  \/ \E q \in Questions : StartStoredTurnRaises(q)
  \/ \E r \in SearchReplies : ResolveNoContext(r)
  \/ \E d \in DistanceReplies : DetectTopic(d)
  \/ \E r \in SearchReplies : RetrieveOrKeep(r)
  \/ \E r \in SearchReplies : StrainLookup(r)
  \/ ComposePrompt
  \/ \E a \in Answers : GenerateOk(a)
  \/ \E how \in {"raises", "status", "body"} : GenerateFails(how)
  \/ \E h \in Histories : StoreOutcome(h)

SpecStored == Init /\ [][NextStored]_vars


(***************************************************************************)
(* Properties of a turn.                                                   *)
(***************************************************************************)
\* The product context of the session the turn was given, None when the
\* session or its context is absent.
SessionContext == IF session.present THEN session.product_context ELSE None

\* The resolution has run to its end: lines 55 to 85 are behind.
Resolved == pc \in {"compose", "generate"} \/ (pc = "done" /\ response # "none")

\* The turn returned what it had resolved.
Answered == pc = "done" /\ response = "ok"

\* The generator failed: the call raised, or the status was not 200.
GeneratorFailed == pc = "done" /\ response \in {"raises", "status"}

\* The two retrievals of the resolver.
Retrievals == {"get_product_context_from_query", "get_product_by_strain_name"}

\* The calls on the encoder and the index.
CollaboratorCalls ==
  {"encode_query", "search_index", "get_distance", "get_product_by_index"}

\* C1: whenever a turn returns new_product_detected = true, the returned
\* context_used is a different product from the product context of the
\* session passed in, or that session had no product context.
C1_TopicChangedMeansOtherProduct ==
  (pc = "done" /\ returned.new_product_detected)
     => (SessionContext = None \/ returned.context_used # SessionContext)

\* C2: when the generator fails, the turn ends with the apology answer,
\* context_used absent and new_product_detected false, whatever context had
\* been resolved before the generator was called.
C2_GeneratorFailureApologises ==
  GeneratorFailed
     => returned = [answer |-> APOLOGY, context_used |-> None,
                    new_product_detected |-> FALSE]

\* C2 witness: the generator failed after a product had been resolved and
\* flagged as new.
C2_Witness ==
  /\ GeneratorFailed
  /\ context_used # None
  /\ new_product_detected
  /\ returned.answer = APOLOGY

\* The curated names, the follow-up indicators and the product names,
\* tabulated over the questions and products of the model.
KnownTable == Tabulated([q \in Questions |-> KnownIn(lower(q))])

IndicatorTable == Tabulated([q \in Questions |-> IndicatorsIn(q)])

NameTable == Tabulated([p \in Products |-> lower(get_product_name(p))])

AboutTable == Tabulated([q \in Questions |-> about_pattern(lower(q))])

\* "og kush", the name the extractor yields for "What is OG Kush?"
OG_KUSH == <<"o","g"," ","k","u","s","h">>

\* The products whose description holds "og kush strain".
MentionOGKushStrain ==
  {p \in Products : Contains(lower(Description(p)), OG_KUSH \o SP_STRAIN)}

\* The products that stage (a) of the direct lookup accepts for "og kush".
ExactOGKush ==
  {p \in Products : \/ startswith(lower(Description(p)), OG_KUSH)
                    \/ Contains(lower(Description(p)), OG_KUSH \o SP_STRAIN)}

\* C3, as claimed: with no session and the question "What is OG Kush?" the
\* extractor yields "og kush", the direct lookup is made, and a candidate
\* whose description holds "og kush strain" is the context used, flagged as
\* new, for every scan order and every result of the query retrieval.
C3_MentioningCandidateIsUsed ==
  (Resolved /\ ~session.present /\ question = Q_WhatIsOGKush)
     => /\ detected_strain_name = OG_KUSH
        /\ "get_product_by_strain_name" \in calls
        /\ MentionOGKushStrain # {}
             => context_used \in MentionOGKushStrain /\ new_product_detected

\* C3, amended: with no session and the question "What is OG Kush?" the
\* extractor yields "og kush".  When the query retrieval has returned a
\* product named "og kush" no direct lookup is made and that product is the
\* context used; otherwise the direct lookup is made and the first candidate
\* of the scan order whose description starts with "og kush" or holds
\* "og kush strain" is the context used.  Either way the flag is true, and
\* an answered turn returns that context and flag.
C3_FirstExactCandidateIsUsed ==
  (Resolved /\ ~session.present /\ question = Q_WhatIsOGKush)
     => /\ detected_strain_name = OG_KUSH
        /\ IF "get_product_by_strain_name" \in calls
           THEN \A k \in DOMAIN products_data :
                   (/\ products_data[k] \in ExactOGKush
                    /\ \A j \in 1..(k - 1) : products_data[j] \notin ExactOGKush)
                      => context_used = products_data[k] /\ new_product_detected
           ELSE /\ context_used # None
                /\ NameTable[context_used] = OG_KUSH
                /\ new_product_detected
        /\ Answered => /\ returned.context_used = context_used
                       /\ returned.new_product_detected = new_product_detected

\* C3 witness: no session, "What is OG Kush?", the direct lookup was made and
\* the product whose description holds "og kush strain" came back.
C3_Witness ==
  /\ Answered
  /\ ~session.present
  /\ question = Q_WhatIsOGKush
  /\ "get_product_by_strain_name" \in calls
  /\ returned.context_used \in MentionOGKushStrain
  /\ returned.new_product_detected

\* C4: when the extractor yields a name that differs, case-insensitively,
\* from the name of the context chosen so far (or no context was chosen),
\* the direct lookup is made, and when it succeeds its product is the final
\* context_used and the flag is true, also in what an answered turn returns.
C4_DirectLookupWins ==
  /\ [][(/\ pc = "strain"
         /\ Truthy(ExtractTable[question])
         /\ context_used = None \/ NameTable[context_used] # lower(ExtractTable[question]))
          => /\ "get_product_by_strain_name" \in calls'
             /\ direct_found' => context_used' = direct_context' /\ new_product_detected']_vars
  /\ [](Resolved /\ direct_found
          => /\ context_used = direct_context
             /\ new_product_detected
             /\ Answered => /\ returned.context_used = direct_context
                            /\ returned.new_product_detected)

\* C4 witness: the detector kept the session's product, the direct lookup
\* found another one, and the turn returned it.
C4_Witness ==
  /\ Answered
  /\ HasContext(session)
  /\ ~is_new_topic
  /\ direct_found
  /\ direct_context # session.product_context
  /\ returned.context_used = direct_context
  /\ returned.new_product_detected

\* C5: when the name extracted from the question equals, case-insensitively,
\* the name of the session's product context, no direct lookup is made.
C5_NoLookupWhenNamesMatch ==
  (/\ Resolved
   /\ HasContext(session)
   /\ Truthy(ExtractTable[question])
   /\ NameTable[session.product_context] = lower(ExtractTable[question]))
     => "get_product_by_strain_name" \notin calls

\* C5 witness: the question names the session's product in another case.
C5_Witness ==
  /\ Resolved
  /\ HasContext(session)
  /\ Truthy(ExtractTable[question])
  /\ NameTable[session.product_context] = lower(ExtractTable[question])
  /\ get_product_name(session.product_context) # ExtractTable[question]
  /\ "get_product_by_strain_name" \notin calls

\* C6: with a product context in the session, a follow-up indicator in the
\* question and no strain name extracted, the resolver makes no retrieval
\* and no call on the encoder or the index, uses the session's context, and
\* the flag is false.
C6_FollowUpKeepsContext ==
  (/\ Resolved
   /\ HasContext(session)
   /\ IndicatorTable[question] # {}
   /\ ~Truthy(ExtractTable[question]))
     => /\ calls \cap (Retrievals \cup CollaboratorCalls) = {}
        /\ context_used = session.product_context
        /\ ~new_product_detected
        /\ Answered => /\ returned.context_used = session.product_context
                       /\ ~returned.new_product_detected

\* C6 witness: "How's the taste?" in a session about a product.
C6_Witness ==
  /\ Answered
  /\ HasContext(session)
  /\ question = Q_Taste
  /\ returned.context_used = session.product_context
  /\ ~returned.new_product_detected

\* C7: with a present context and a follow-up indicator in the question,
\* detect_topic_change returns false and has called neither the encoder nor
\* the index.
C7_IndicatorDecidesBeforeEmbedding ==
  (pc = "detected" /\ IndicatorTable[question] # {})
     => ~is_new_topic /\ calls \cap CollaboratorCalls = {}

\* C7 witness: a follow-up question that also holds a product word, so
\* that a low similarity would have meant a new topic.
C7_Witness ==
  /\ pc = "detected"
  /\ IndicatorTable[question] # {}
  /\ ReferenceTable[question]
  /\ ~Contains(lower(question), NameTable[session.product_context])
  /\ ~is_new_topic

\* C8: no step of ask_question writes to the session or to the index's
\* data, on the error path either, and a call that has returned leaves
\* nothing behind but the caller's session.
C8_SessionNeverWritten ==
  [][/\ pc # "idle" => session' = session
     /\ products_data' = products_data
     /\ pc' = "idle" => /\ resolved' = <<None, FALSE, FALSE, NoneStr, None, FALSE, NoPrompt>>
                        /\ response' = "none"
                        /\ calls' = {}
                        /\ returned' = NoResult]_vars

\* C8 witness: a turn with a history returned another context than the
\* session's, and the session still holds its own.
C8_Witness ==
  /\ Answered
  /\ HasContext(session)
  /\ session.conversation_history # <<>>
  /\ returned.context_used # session.product_context

\* C9, as claimed: a text that holds a curated name yields that name.
C9_EveryKnownNameIsReturned ==
  Resolved => \A k \in KnownTable[question] :
                 detected_strain_name = COMMON_STRAIN_NAMES[k]

\* C9, amended: a text that holds curated names yields the one that comes
\* first in the curated list, in any letter case and whatever the later
\* rules would capture.
C9_FirstKnownNameIsReturned ==
  (Resolved /\ KnownTable[question] # {})
     => detected_strain_name = COMMON_STRAIN_NAMES[Min(KnownTable[question])]

\* C9 witness: the "about" rule would capture another phrase than the
\* curated name the text holds.
C9_Witness ==
  /\ Resolved
  /\ KnownTable[question] # {}
  /\ AboutTable[question] # NoneStr
  /\ strip(AboutTable[question]) # detected_strain_name
  /\ question # lower(question)

\* C10: in a turn without a session product context the flag is true only
\* when a product was found, by the query retrieval or by the direct lookup.
C10_FlagNeedsProduct ==
  /\ (Resolved /\ ~HasContext(session) /\ new_product_detected)
        => context_used # None
  /\ (pc = "done" /\ ~HasContext(session) /\ returned.new_product_detected)
        => returned.context_used # None

\* C10 witness: without a session context, the query retrieval found a
\* product and the turn returned it flagged.
C10_Witness ==
  /\ Answered
  /\ ~HasContext(session)
  /\ "get_product_by_strain_name" \notin calls
  /\ returned.new_product_detected
  /\ returned.context_used # None

\* The products that stage (a) and stage (b) of the direct lookup accept for
\* the name extracted from a question, tabulated over the questions.
StageATable ==
  Tabulated([q \in Questions |->
     {p \in Products : /\ Truthy(ExtractTable[q])
                       /\ ExactMatch(strip(lower(ExtractTable[q])), p)}])

StageBTable ==
  Tabulated([q \in Questions |->
     {p \in Products : /\ Truthy(ExtractTable[q])
                       /\ WordMatch(strip(lower(ExtractTable[q])), p)}])

\* The direct lookup has been made in this turn.
LookedUp == Resolved /\ "get_product_by_strain_name" \in calls

\* C11: the direct lookup runs its stages in order over the whole scan: when
\* some candidate matches stage (a), the first such candidate of the scan
\* order is found, also when a candidate that matches only stage (b) comes
\* earlier; when none matches (a) and some match (b), the first of those is
\* found; in both cases whatever the encoder and the index would answer, and
\* the lookup calls neither.  When no candidate matches (a) or (b) the
\* embedding fallback is made.
C11_StagesRunInOrder ==
  /\ [](LookedUp =>
          LET A == StageATable[question]
              B == StageBTable[question]
          IN  /\ A # {} => /\ direct_found
                           /\ direct_context = FirstMatch(products_data, A)
              /\ (A = {} /\ B # {}) =>
                    /\ direct_found
                    /\ direct_context = FirstMatch(products_data, B)
              /\ (A = {} /\ B = {}) =>
                    /\ "encode_query" \in calls
                    /\ direct_found => "get_product_by_index" \in calls)
  /\ [][(/\ pc = "strain"
         /\ "get_product_by_strain_name" \in calls'
         /\ StageATable[question] \cup StageBTable[question] # {})
          => calls' \ calls \subseteq {"get_product_by_strain_name", "products_data"}]_vars

\* C11 witness: a candidate that matches only stage (b) comes before every
\* stage (a) candidate in the scan order, and a stage (a) candidate is found.
C11_Witness ==
  /\ LookedUp
  /\ direct_found
  /\ direct_context \in StageATable[question]
  /\ \E k \in DOMAIN products_data :
        /\ products_data[k] \in StageBTable[question] \ StageATable[question]
        /\ \A j \in 1..k : products_data[j] \notin StageATable[question]

\* A step in which a call on the encoder or the index raises is absorbed: the
\* turn goes on to its next stage and returns nothing yet; a failing
\* retrieval counts as no match and a failing similarity check as no topic
\* change.
FailureAbsorbed ==
  raised' # "none" =>
    /\ pc' \in {"strain", "detected", "compose"}
    /\ returned' = NoResult
    /\ (pc = "resolve" /\ ~HasContext(session))
          => context_used' = None /\ ~new_product_detected'
    /\ (pc = "resolve" /\ HasContext(session)) => ~is_new_topic'
    /\ pc = "detected"
          => context_used' = session.product_context /\ ~new_product_detected'
    /\ pc = "strain"
          => /\ ~direct_found'
             /\ context_used' = context_used
             /\ new_product_detected' = new_product_detected

\* Calls on the encoder or the index were made in the turn and every one of
\* them raised.
EveryCallFailed == calls \cap CollaboratorCalls # {} /\ succeeded = {}

\* A turn that called the encoder or the index ends in the apology only
\* after the generator was called.
ApologyOnlyFromGenerator ==
  (pc = "done" /\ calls \cap CollaboratorCalls # {}) => "generate" \in calls

\* C12, as claimed: an exception of the encoder or the index is absorbed
\* where it occurs and never reaches the apology path; with a product
\* context in the session and every call on the encoder and the index
\* failing, the context used is the session's and the flag is false.
C12_FailuresKeepSessionContext ==
  /\ [][FailureAbsorbed]_vars
  /\ [](ApologyOnlyFromGenerator)
  /\ []((Resolved /\ HasContext(session) /\ EveryCallFailed)
          => /\ context_used = session.product_context
             /\ ~new_product_detected
             /\ Answered => /\ returned.context_used = session.product_context
                            /\ ~returned.new_product_detected)

\* C12, amended: an exception of the encoder or the index is absorbed where
\* it occurs and never reaches the apology path.  With a product context in
\* the session and every call on the encoder and the index failing, the
\* context used is the session's and the flag is false, unless the direct
\* lookup was made and a candidate matches its stage (a) or (b), which scan
\* the descriptions and call neither the encoder nor the index: then that
\* candidate is the context used and the flag is true.
C12_FailuresKeepContextUnlessScanFinds ==
  /\ [][FailureAbsorbed]_vars
  /\ [](ApologyOnlyFromGenerator)
  /\ []((Resolved /\ HasContext(session) /\ EveryCallFailed)
          => /\ IF /\ "get_product_by_strain_name" \in calls
                    /\ StageATable[question] \cup StageBTable[question] # {}
                 THEN /\ direct_found
                      /\ context_used = direct_context
                      /\ new_product_detected
                 ELSE /\ context_used = session.product_context
                      /\ ~new_product_detected
             /\ Answered => /\ returned.context_used = context_used
                            /\ returned.new_product_detected = new_product_detected)

\* C12 witness: the similarity check and the fallback of the direct lookup
\* both failed, no call on the encoder or the index returned, and the turn
\* was answered with the session's context and the flag false.
C12_Witness ==
  /\ Answered
  /\ HasContext(session)
  /\ EveryCallFailed
  /\ "get_distance" \in calls
  /\ "get_product_by_strain_name" \in calls
  /\ returned.context_used = session.product_context
  /\ ~returned.new_product_detected

\* C13: in a conversation whose caller stores every returned context_used
\* as the next session's product_context, a turn given a session with a
\* product context falls back to it when the search and the direct lookup
\* find nothing, an answered turn returns a present context_used, and the
\* session's context becomes absent only by storing the apology outcome.
C13_ContextLostOnlyByApology ==
  /\ []((Resolved /\ HasContext(session))
          => /\ context_used # None
             /\ ~new_product_detected => context_used = session.product_context
             /\ Answered => returned.context_used = context_used)
  /\ [][(HasContext(session) /\ ~HasContext(session'))
          => /\ pc = "done"
             /\ returned = [answer |-> APOLOGY, context_used |-> None,
                            new_product_detected |-> FALSE]]_vars

\* C13 witness: in a turn given a stored product context the search and the
\* direct lookup both found nothing, and the answered turn returned the
\* stored context.
C13_Witness ==
  /\ Answered
  /\ HasContext(session)
  /\ "get_product_context_from_query" \in calls
  /\ "get_product_by_strain_name" \in calls
  /\ ~direct_found
  /\ ~new_product_detected
  /\ returned.context_used = session.product_context

=============================================================================
